---- MODULE Spec2Model ----
(***************************************************************************)
(* Model of src/handlers/label.rs: LabelHandler::handle_event and          *)
(* check_filter.  One handler invocation is a sequential process whose     *)
(* position is pc; the issue tracker (authoritative label list, comment    *)
(* posts, membership checks) is its environment.                           *)
(***************************************************************************)
EXTENDS Naturals, Sequences, FiniteSets

(***************************************************************************)
(* Bounds of the model.                                                    *)
(***************************************************************************)
\* longest delta sequence of a parsed label command
MaxDeltas == 3
\* the same for each of two commands handled concurrently
MaxConcDeltas == 1
\* most labels on the issue when the event is delivered
MaxStart == 2

(***************************************************************************)
(* Label names.  A name is the sequence of its characters, so that         *)
(* str::starts_with and string equality are computed, not assumed.         *)
(***************************************************************************)
L_C_bug == <<"C", "-", "b", "u", "g">>
L_A_foo == <<"A", "-", "f", "o", "o">>
L_E_easy == <<"E", "-", "e", "a", "s", "y">>
L_NLL_fixed == <<"N", "L", "L", "-", "f", "i", "x", "e", "d">>
L_O_linux == <<"O", "-", "l", "i", "n", "u", "x">>
L_S_waiting == <<"S", "-", "w", "a", "i", "t", "i", "n", "g">>
L_T_compiler == <<"T", "-", "c", "o", "m", "p", "i", "l", "e", "r">>
L_WG_x == <<"W", "G", "-", "x">>
L_C_dash == <<"C", "-">>
L_NLL_dash == <<"N", "L", "L", "-">>
L_I_compilemem == <<"I", "-", "c", "o", "m", "p", "i", "l", "e", "m", "e", "m">>
L_I_compiletime == <<"I", "-", "c", "o", "m", "p", "i", "l", "e", "t", "i", "m", "e">>
L_I_crash == <<"I", "-", "c", "r", "a", "s", "h">>
L_I_hang == <<"I", "-", "h", "a", "n", "g">>
L_I_ICE == <<"I", "-", "I", "C", "E">>
L_I_slow == <<"I", "-", "s", "l", "o", "w">>
L_I_nominated == <<"I", "-", "n", "o", "m", "i", "n", "a", "t", "e", "d">>
L_I_dash == <<"I", "-">>
L_I_crashes == <<"I", "-", "c", "r", "a", "s", "h", "e", "s">>
L_I_ice_lower == <<"I", "-", "i", "c", "e">>
L_I_unsound == <<"I", "-", "u", "n", "s", "o", "u", "n", "d">>
L_beta_nominated == <<"b", "e", "t", "a", "-", "n", "o", "m", "i", "n", "a", "t", "e", "d">>
L_P_high == <<"P", "-", "h", "i", "g", "h">>
L_empty == <<>>
L_C_bare == <<"C">>
L_NLL_bare == <<"N", "L", "L">>
L_NLLx_y == <<"N", "L", "L", "x", "-", "y">>
L_WG_bare == <<"W", "G">>
L_c_bug_lower == <<"c", "-", "b", "u", "g">>
L_xT_y == <<"x", "T", "-", "y">>
L_regression == <<"r", "e", "g", "r", "e", "s", "s", "i", "o", "n">>
L_I_Slow_upper == <<"I", "-", "S", "l", "o", "w">>
L_WG_underscore == <<"W", "G", "_", "x">>

\* names that pass the prefix test, names that are exact tags, other names
PrefixedLabels ==
    {L_C_bug, L_A_foo, L_E_easy, L_NLL_fixed, L_O_linux, L_S_waiting,
     L_T_compiler, L_WG_x, L_C_dash, L_NLL_dash}
TagLabels ==
    {L_I_compilemem, L_I_compiletime, L_I_crash, L_I_hang, L_I_ICE, L_I_slow}
OtherLabels ==
    {L_I_nominated, L_I_dash, L_I_crashes, L_I_ice_lower, L_I_unsound,
     L_beta_nominated, L_P_high, L_empty, L_C_bare, L_NLL_bare, L_NLLx_y,
     L_WG_bare, L_c_bug_lower, L_xT_y, L_regression, L_I_Slow_upper,
     L_WG_underscore}
\* every label name the model feeds to check_filter
AllLabels == PrefixedLabels \cup TagLabels \cup OtherLabels
\* the label names of the multi-delta commands
Names == {L_A_foo, L_E_easy, L_I_nominated}

\* outcomes of user.is_team_member(client): Ok(true), Ok(false), Err(_)
MembershipOutcomes == {"Member", "NotMember", "CheckFailed"}
\* parser error messages and comment URLs of the events
ParseErrors == {"err1", "err2"}
Urls == {"url1", "url2"}

(***************************************************************************)
(* check_filter (lines 90-133)                                             *)
(***************************************************************************)
\* str::starts_with
starts_with(s, p) == Len(s) >= Len(p) /\ SubSeq(s, 1, Len(p)) = p

\* the prefixes of lines 103-110
AllowedPrefixes ==
    {<<"C", "-">>, <<"A", "-">>, <<"E", "-">>, <<"N", "L", "L", "-">>,
     <<"O", "-">>, <<"S", "-">>, <<"T", "-">>, <<"W", "G", "-">>}

\* the exact tags of line 115
AllowedTags ==
    {<<"I", "-", "c", "o", "m", "p", "i", "l", "e", "m", "e", "m">>,
     <<"I", "-", "c", "o", "m", "p", "i", "l", "e", "t", "i", "m", "e">>,
     <<"I", "-", "c", "r", "a", "s", "h">>,
     <<"I", "-", "h", "a", "n", "g">>,
     <<"I", "-", "I", "C", "E">>,
     <<"I", "-", "s", "l", "o", "w">>}

\* the text of a comment: which format string, and what it is filled with
NoText == [template |-> "none", label |-> <<>>, url |-> "", err |-> ""]
\* format!("Label {} can only be set by Rust team members", label)
TeamOnlyText(label) ==
    [template |-> "TeamOnly", label |-> label, url |-> "", err |-> ""]
\* the same with "; we were unable to check if you are a team member."
TeamOnlyUncheckedText(label) ==
    [template |-> "TeamOnlyUnchecked", label |-> label, url |-> "", err |-> ""]
\* format!("Parsing label command in [comment]({}) failed: {}", html_url, err)
ParseFailedText(url, err) ==
    [template |-> "ParseFailed", label |-> <<>>, url |-> url, err |-> err]

\* Result<(), String>
FilterOk == [ok |-> TRUE, text |-> NoText]
FilterErr(text) == [ok |-> FALSE, text |-> text]

\* check_filter without the "T-" test of line 109
check_filter_no_team_prefix(label, m) ==
    IF m = "Member" THEN FilterOk
    ELSE IF \E p \in AllowedPrefixes \ {<<"T", "-">>} : starts_with(label, p)
    THEN FilterOk
    ELSE IF label \in AllowedTags THEN FilterOk
    ELSE IF m = "NotMember" THEN FilterErr(TeamOnlyText(label))
    ELSE FilterErr(TeamOnlyUncheckedText(label))

\* check_filter returning Ok(()) when the membership check fails
check_filter_fail_open(label, m) ==
    IF m \in {"Member", "CheckFailed"} THEN FilterOk
    ELSE IF \E p \in AllowedPrefixes : starts_with(label, p) THEN FilterOk
    ELSE IF label \in AllowedTags THEN FilterOk
    ELSE FilterErr(TeamOnlyText(label))

\* check_filter with the exact tags of line 115 turned into an "I-" prefix
check_filter_any_I(label, m) ==
    IF m = "Member" THEN FilterOk
    ELSE IF \E p \in AllowedPrefixes \cup {<<"I", "-">>} : starts_with(label, p)
    THEN FilterOk
    ELSE IF m = "NotMember" THEN FilterErr(TeamOnlyText(label))
    ELSE FilterErr(TeamOnlyUncheckedText(label))

\* check_filter without the early return of line 93
check_filter_member_unchecked(label, m) ==
    IF \E p \in AllowedPrefixes : starts_with(label, p) THEN FilterOk
    ELSE IF label \in AllowedTags THEN FilterOk
    ELSE IF m \in {"Member", "NotMember"} THEN FilterErr(TeamOnlyText(label))
    ELSE FilterErr(TeamOnlyUncheckedText(label))

\* check_filter with is_team_member.is_err() for is_ok() at line 121
check_filter_swapped_wording(label, m) ==
    IF m = "Member" THEN FilterOk
    ELSE IF \E p \in AllowedPrefixes : starts_with(label, p) THEN FilterOk
    ELSE IF label \in AllowedTags THEN FilterOk
    ELSE IF m = "NotMember" THEN FilterErr(TeamOnlyUncheckedText(label))
    ELSE FilterErr(TeamOnlyText(label))

\* check_filter(label, user, client), m the outcome of user.is_team_member
check_filter(label, m) ==
    IF m = "Member" THEN FilterOk
    ELSE IF \E p \in AllowedPrefixes : starts_with(label, p) THEN FilterOk
    ELSE IF label \in AllowedTags THEN FilterOk
    ELSE IF m = "NotMember" THEN FilterErr(TeamOnlyText(label))
    ELSE FilterErr(TeamOnlyUncheckedText(label))

(***************************************************************************)
(* The delta loop's body (lines 64-79)                                     *)
(***************************************************************************)
\* issue_labels.iter().any(|l| l.name == label)
has_label(labels, name) == \E j \in 1..Len(labels) : labels[j] = name

\* issue_labels.iter().position(|l| l.name == label), 0 for None
position(labels, name) ==
    IF has_label(labels, name)
    THEN CHOOSE j \in 1..Len(labels) :
            labels[j] = name /\ \A k \in 1..(j - 1) : labels[k] # name
    ELSE 0

\* Vec::remove(pos)
remove_at(labels, pos) ==
    SubSeq(labels, 1, pos - 1) \o SubSeq(labels, pos + 1, Len(labels))

\* Add without the test of line 66: it always pushes
apply_add_unchecked(st, name) ==
    [labels |-> Append(st.labels, name), changed |-> TRUE]

\* Add with `changed = true` moved out of the `if`
apply_add_always_changed(st, name) ==
    [labels |-> IF has_label(st.labels, name) THEN st.labels
                ELSE Append(st.labels, name),
     changed |-> TRUE]

\* LabelDelta::Add(label) (lines 65-72)
apply_add(st, name) ==
    IF ~has_label(st.labels, name)
    THEN [labels |-> Append(st.labels, name), changed |-> TRUE]
    ELSE st

\* Remove without line 76: it marks the change and removes nothing
apply_remove_forgets(st, name) ==
    IF position(st.labels, name) # 0
    THEN [labels |-> st.labels, changed |-> TRUE]
    ELSE st

\* LabelDelta::Remove(label) (lines 73-78)
apply_remove(st, name) ==
    IF position(st.labels, name) # 0
    THEN [labels |-> remove_at(st.labels, position(st.labels, name)),
          changed |-> TRUE]
    ELSE st

\* match delta (lines 64-79)
apply_delta(st, delta) ==
    IF delta.op = "Add" THEN apply_add(st, delta.label)
    ELSE apply_remove(st, delta.label)

(***************************************************************************)
(* Events                                                                  *)
(***************************************************************************)
SeqsUpTo(S, n) == UNION {[1..k -> S] : k \in 0..n}

\* label lists without duplicate names: what issue.labels() returns
UniqueLists(S, n) ==
    {s \in SeqsUpTo(S, n) : \A a, b \in 1..Len(s) : s[a] = s[b] => a = b}

DeltasOver(S) == [op : {"Add", "Remove"}, label : S]

\* what input.parse_command() returns
ParseNone == [tag |-> "None", err |-> "", deltas |-> <<>>]
ParseErr(e) == [tag |-> "LabelErr", err |-> e, deltas |-> <<>>]
ParseOk(ds) == [tag |-> "LabelOk", err |-> "", deltas |-> ds]

CommentEvent(labels, url, parse) ==
    [kind |-> "IssueComment", labels |-> labels, url |-> url, parse |-> parse]

\* an event of another kind: it has no comment
OtherEvent(labels) ==
    [kind |-> "Other", labels |-> labels, url |-> "", parse |-> ParseNone]

\* events that carry no label command, or a malformed one
PlainEvents ==
    LET starts == UniqueLists(Names, MaxStart)
    IN  {OtherEvent(l) : l \in starts}
        \cup {CommentEvent(l, "url1", ParseNone) : l \in starts}
        \cup {CommentEvent(l, u, ParseErr(e)) :
                l \in starts, u \in Urls, e \in ParseErrors}

\* events whose command is a delta sequence over Names
Events ==
    PlainEvents
    \cup {CommentEvent(l, "url1", ParseOk(ds)) :
            l \in UniqueLists(Names, MaxStart),
            ds \in SeqsUpTo(DeltasOver(Names), MaxDeltas)}

\* events whose command is one delta on any label, the issue having that
\* label or no label
LabelEvents ==
    PlainEvents
    \cup UNION {{CommentEvent(l, "url1", ParseOk(<<d>>)) :
                    l \in {<<>>, <<d.label>>}} : d \in DeltasOver(AllLabels)}

(***************************************************************************)
(* State                                                                   *)
(***************************************************************************)
VARIABLES
    event,          \* the event being handled (its issue snapshot included)
    serverLabels,   \* the tracker's authoritative label list of the issue
    pc,             \* position of handle_event
    issue_labels,   \* let mut issue_labels (line 34)
    changed,        \* let mut changed (line 57)
    idx,            \* position of `for delta in &deltas` (1-based)
    membership,     \* outcome of the latest user.is_team_member call
    msg,            \* what the latest check_filter call returned
    posts,          \* ErrorComment::post calls of this invocation
    setCalls,       \* set_labels calls of this invocation
    checks,         \* check_filter calls of this invocation, in order
    result,         \* what handle_event returned
    replayed,       \* the event has been delivered a second time
    firstResolved,  \* the first delivery resolved every delta and returned Ok
    peer            \* the concurrent invocation, while the other one steps

\* user.is_team_member is called once in every check_filter call (line 92)
memberChecks == Len(checks)

vars ==
    <<event, serverLabels, pc, issue_labels, changed, idx, membership, msg,
      posts, setCalls, checks, result, replayed, firstResolved, peer>>

\* the deltas of the parsed command (line 38)
deltas == event.parse.deltas

\* the handler's locals before the invocation starts
Fresh ==
    /\ pc = "start"
    /\ issue_labels = <<>>
    /\ changed = FALSE
    /\ idx = 0
    /\ membership = "none"
    /\ msg = FilterOk
    /\ posts = <<>>
    /\ setCalls = <<>>
    /\ checks = <<>>
    /\ result = "Pending"

\* no second invocation runs
NoPeer == [pc |-> "absent"]

InitOver(events) ==
    /\ event \in events
    /\ peer = NoPeer
    /\ serverLabels = event.labels
    /\ Fresh
    /\ replayed = FALSE
    /\ firstResolved = FALSE

Init == InitOver(Events)

InitLabels == InitOver(LabelEvents)

\* return from handle_event with r
Return(r) ==
    /\ pc' = "done"
    /\ result' = r

(***************************************************************************)
(* handle_event (lines 25-87), one action per step                         *)
(***************************************************************************)
\* lines 27-34: only issue comments are handled; copy the issue's labels
FilterEvent ==
    /\ pc = "start"
    /\ IF event.kind = "IssueComment"
       THEN /\ issue_labels' = event.labels
            /\ pc' = "parse"
            /\ UNCHANGED result
       ELSE /\ Return("Ok")
            /\ UNCHANGED issue_labels
    /\ UNCHANGED <<event, serverLabels, changed, idx, membership, msg, posts,
                   setCalls, checks, replayed, firstResolved, peer>>

\* ParseCommand with every non-Label(Ok) outcome taken as a parse error
ParseCommand_none_is_error ==
    /\ pc = "parse"
    /\ IF event.parse.tag = "LabelOk"
       THEN /\ pc' = "loop"
            /\ idx' = 1
            /\ changed' = FALSE
       ELSE /\ pc' = "post_parse_error"
            /\ UNCHANGED <<idx, changed>>
    /\ UNCHANGED <<event, serverLabels, issue_labels, membership, msg, posts,
                   setCalls, checks, result, replayed, firstResolved, peer>>

\* lines 36-57: the three outcomes of input.parse_command()
ParseCommand ==
    /\ pc = "parse"
    /\ IF event.parse.tag = "LabelOk"
       THEN /\ pc' = "loop"
            /\ idx' = 1
            /\ changed' = FALSE
            /\ UNCHANGED result
       ELSE IF event.parse.tag = "LabelErr"
       THEN /\ pc' = "post_parse_error"
            /\ UNCHANGED <<idx, changed, result>>
       ELSE /\ Return("Ok")
            /\ UNCHANGED <<idx, changed>>
    /\ UNCHANGED <<event, serverLabels, issue_labels, membership, msg, posts,
                   setCalls, checks, replayed, firstResolved, peer>>

\* the parse-error path without the post: it bails at once
PostParseError_skip ==
    /\ pc = "post_parse_error"
    /\ pc' = "bail"
    /\ UNCHANGED <<event, serverLabels, issue_labels, changed, idx, membership,
                   msg, posts, setCalls, checks, result, replayed,
                   firstResolved, peer>>

\* lines 40-47: post the parse error; `?` returns the post's error
PostParseError ==
    /\ pc = "post_parse_error"
    /\ \E ok \in BOOLEAN :
        /\ posts' = Append(posts,
                [text |-> ParseFailedText(event.url, event.parse.err),
                 ok |-> ok])
        /\ IF ok
           THEN pc' = "bail" /\ UNCHANGED result
           ELSE Return("ErrPost")
    /\ UNCHANGED <<event, serverLabels, issue_labels, changed, idx, membership,
                   msg, setCalls, checks, replayed, firstResolved, peer>>

\* lines 48-52: failure::bail!
Bail ==
    /\ pc = "bail"
    /\ Return("ErrParse")
    /\ UNCHANGED <<event, serverLabels, issue_labels, changed, idx, membership,
                   msg, posts, setCalls, checks, replayed, firstResolved, peer>>

\* the loop with `?` on the membership check: its error is returned
CheckFilter_propagate ==
    /\ pc = "loop"
    /\ idx <= Len(deltas)
    /\ \E m \in MembershipOutcomes :
        LET r == check_filter(deltas[idx].label, m)
        IN  /\ membership' = m
            /\ msg' = r
            /\ checks' = Append(checks,
                    [label |-> deltas[idx].label, ok |-> r.ok])
            /\ IF m = "CheckFailed"
               THEN Return("ErrMembership")
               ELSE /\ pc' = IF r.ok THEN "apply" ELSE "post_denial"
                    /\ UNCHANGED result
    /\ UNCHANGED <<event, serverLabels, issue_labels, changed, idx, posts,
                   setCalls, replayed, firstResolved, peer>>

\* the loop calling check_filter only for labels outside the allow-list
CheckFilter_skip_allowlisted ==
    /\ pc = "loop"
    /\ idx <= Len(deltas)
    /\ IF check_filter(deltas[idx].label, "NotMember").ok
       THEN /\ pc' = "apply"
            /\ UNCHANGED <<membership, msg, checks>>
       ELSE \E m \in MembershipOutcomes :
            LET r == check_filter(deltas[idx].label, m)
            IN  /\ membership' = m
                /\ msg' = r
                /\ checks' = Append(checks,
                        [label |-> deltas[idx].label, ok |-> r.ok])
                /\ pc' = IF r.ok THEN "apply" ELSE "post_denial"
    /\ UNCHANGED <<event, serverLabels, issue_labels, changed, idx, posts,
                   setCalls, result, replayed, firstResolved, peer>>

\* lines 58-60: the next delta's check_filter, membership check included
CheckFilter ==
    /\ pc = "loop"
    /\ idx <= Len(deltas)
    /\ \E m \in MembershipOutcomes :
        LET r == check_filter(deltas[idx].label, m)
        IN  /\ membership' = m
            /\ msg' = r
            /\ checks' = Append(checks,
                    [label |-> deltas[idx].label, ok |-> r.ok])
            /\ pc' = IF r.ok THEN "apply" ELSE "post_denial"
    /\ UNCHANGED <<event, serverLabels, issue_labels, changed, idx, posts,
                   setCalls, result, replayed, firstResolved, peer>>

\* the denial path with `continue` for `return Ok(())`
PostDenial_skip ==
    /\ pc = "post_denial"
    /\ \E ok \in BOOLEAN :
        /\ posts' = Append(posts, [text |-> msg.text, ok |-> ok])
        /\ IF ok
           THEN pc' = "loop" /\ idx' = idx + 1 /\ UNCHANGED result
           ELSE Return("ErrPost") /\ UNCHANGED idx
    /\ UNCHANGED <<event, serverLabels, issue_labels, changed, membership, msg,
                   setCalls, checks, replayed, firstResolved, peer>>

\* the denial path returning a failure, as the parse-error path does
PostDenial_err ==
    /\ pc = "post_denial"
    /\ \E ok \in BOOLEAN :
        /\ posts' = Append(posts, [text |-> msg.text, ok |-> ok])
        /\ Return(IF ok THEN "ErrDenied" ELSE "ErrPost")
    /\ UNCHANGED <<event, serverLabels, issue_labels, changed, idx, membership,
                   msg, setCalls, checks, replayed, firstResolved, peer>>

\* lines 61-62: post the denial and return Ok; `?` returns the post's error
PostDenial ==
    /\ pc = "post_denial"
    /\ \E ok \in BOOLEAN :
        /\ posts' = Append(posts, [text |-> msg.text, ok |-> ok])
        /\ Return(IF ok THEN "Ok" ELSE "ErrPost")
    /\ UNCHANGED <<event, serverLabels, issue_labels, changed, idx, membership,
                   msg, setCalls, checks, replayed, firstResolved, peer>>

\* lines 64-79: apply the authorized delta to the working copy
ApplyDelta ==
    /\ pc = "apply"
    /\ LET st == apply_delta([labels |-> issue_labels, changed |-> changed],
                             deltas[idx])
       IN  /\ issue_labels' = st.labels
           /\ changed' = st.changed
    /\ idx' = idx + 1
    /\ pc' = "loop"
    /\ UNCHANGED <<event, serverLabels, membership, msg, posts, setCalls,
                   checks, result, replayed, firstResolved, peer>>

\* lines 80-86: the loop is over; set_labels only if changed
LoopExit ==
    /\ pc = "loop"
    /\ idx > Len(deltas)
    /\ IF changed
       THEN pc' = "set_labels" /\ UNCHANGED result
       ELSE Return("Ok")
    /\ UNCHANGED <<event, serverLabels, issue_labels, changed, idx, membership,
                   msg, posts, setCalls, checks, replayed, firstResolved, peer>>

\* set_labels without `?`: its error is dropped
SetLabels_swallow ==
    /\ pc = "set_labels"
    /\ \E ok \in BOOLEAN :
        /\ setCalls' = Append(setCalls, [labels |-> issue_labels, ok |-> ok])
        /\ serverLabels' = IF ok THEN issue_labels ELSE serverLabels
        /\ Return("Ok")
    /\ UNCHANGED <<event, issue_labels, changed, idx, membership, msg, posts,
                   checks, replayed, firstResolved, peer>>

\* line 83: event.issue.set_labels(client, issue_labels)?
SetLabels ==
    /\ pc = "set_labels"
    /\ \E ok \in BOOLEAN :
        /\ setCalls' = Append(setCalls, [labels |-> issue_labels, ok |-> ok])
        /\ serverLabels' = IF ok THEN issue_labels ELSE serverLabels
        /\ Return(IF ok THEN "Ok" ELSE "ErrSetLabels")
    /\ UNCHANGED <<event, issue_labels, changed, idx, membership, msg, posts,
                   checks, replayed, firstResolved, peer>>

\* the same comment is handled again, against the issue as it is now
Redeliver ==
    /\ pc = "done"
    /\ ~replayed
    /\ replayed' = TRUE
    /\ firstResolved' =
        (event.parse.tag = "LabelOk" /\ result = "Ok" /\ posts = <<>>)
    /\ event' = [event EXCEPT !.labels = serverLabels]
    /\ pc' = "start"
    /\ issue_labels' = <<>>
    /\ changed' = FALSE
    /\ idx' = 0
    /\ membership' = "none"
    /\ msg' = FilterOk
    /\ posts' = <<>>
    /\ setCalls' = <<>>
    /\ checks' = <<>>
    /\ result' = "Pending"
    /\ UNCHANGED <<serverLabels, peer>>

Next ==
    \/ FilterEvent
    \/ ParseCommand
    \/ PostParseError
    \/ Bail
    \/ CheckFilter
    \/ PostDenial
    \/ ApplyDelta
    \/ LoopExit
    \/ SetLabels
    \/ Redeliver

\* multi-delta commands over Names
Spec == Init /\ [][Next]_vars

\* one-delta commands over every label name
SpecLabels == InitLabels /\ [][Next]_vars

(***************************************************************************)
(* Two invocations on one issue.  The handler holds no shared state: each  *)
(* invocation has its own event and locals, and the two meet only at the   *)
(* tracker.  The variables above are those of the invocation that steps;   *)
(* peer holds the other one, and Switch hands the processor over.          *)
(***************************************************************************)
\* two comments on one issue, each event carrying the issue's labels
ConcurrentEvents(labels) ==
    {CommentEvent(labels, "url1", ParseOk(ds)) :
        ds \in SeqsUpTo(DeltasOver(Names), MaxConcDeltas)}

InitConcurrent ==
    /\ \E labels \in UniqueLists(Names, MaxStart) :
        /\ serverLabels = labels
        /\ event \in ConcurrentEvents(labels)
        /\ \E e \in ConcurrentEvents(labels) :
            peer = [id |-> 2, event |-> e, pc |-> "start",
                    issue_labels |-> <<>>, changed |-> FALSE, idx |-> 0,
                    membership |-> "none", msg |-> FilterOk, posts |-> <<>>,
                    setCalls |-> <<>>, checks |-> <<>>, result |-> "Pending"]
    /\ Fresh
    /\ replayed = FALSE
    /\ firstResolved = FALSE

\* the other invocation takes the next steps
Switch ==
    /\ peer.pc \notin {"absent", "done"}
    /\ event' = peer.event
    /\ pc' = peer.pc
    /\ issue_labels' = peer.issue_labels
    /\ changed' = peer.changed
    /\ idx' = peer.idx
    /\ membership' = peer.membership
    /\ msg' = peer.msg
    /\ posts' = peer.posts
    /\ setCalls' = peer.setCalls
    /\ checks' = peer.checks
    /\ result' = peer.result
    /\ peer' = [id |-> 3 - peer.id, event |-> event, pc |-> pc,
                issue_labels |-> issue_labels, changed |-> changed,
                idx |-> idx, membership |-> membership, msg |-> msg,
                posts |-> posts, setCalls |-> setCalls, checks |-> checks,
                result |-> result]
    /\ UNCHANGED <<serverLabels, replayed, firstResolved>>

NextConcurrent ==
    \/ FilterEvent
    \/ ParseCommand
    \/ CheckFilter
    \/ PostDenial
    \/ ApplyDelta
    \/ LoopExit
    \/ SetLabels
    \/ Switch

\* two parsed commands handled concurrently on one issue
SpecConcurrent == InitConcurrent /\ [][NextConcurrent]_vars

(***************************************************************************)
(* Properties                                                              *)
(***************************************************************************)
\* the names of a label list, as a set
NameSet(labels) == {labels[j] : j \in 1..Len(labels)}

DenialTemplates == {"TeamOnly", "TeamOnlyUnchecked"}

\* check_filter returned Err for a delta of this invocation
Denied == \E j \in 1..Len(checks) : ~checks[j].ok

\* the invocation returned after resolving every delta
Resolved ==
    /\ event.parse.tag = "LabelOk"
    /\ pc = "done"
    /\ idx > Len(deltas)
    /\ ~Denied

\* C1: Idempotence. When a fully authorized command has been resolved once
\* and the same command is resolved again against the label set the first
\* run produced, the second run ends with changed = false, makes no
\* set_labels call, and its final set of names is that of the first run.
C1_Idempotence ==
    (replayed /\ firstResolved /\ Resolved /\ result = "Ok") =>
        /\ changed = FALSE
        /\ setCalls = <<>>
        /\ NameSet(issue_labels) = NameSet(event.labels)

\* C2: every set_labels call submits a set of names that differs from the
\* issue's original set of names.
C2_SetLabelsOnlyWhenDifferent ==
    \A k \in 1..Len(setCalls) :
        NameSet(setCalls[k].labels) # NameSet(event.labels)

\* C3: Atomic rejection. Once check_filter has denied a delta, the
\* invocation makes no set_labels call and the tracker's label list is the
\* one the event was delivered with, whatever the working copy holds.
C3_AtomicRejection ==
    Denied =>
        /\ setCalls = <<>>
        /\ pc # "set_labels"
        /\ serverLabels = event.labels

\* C3 witness: the denied delta came after deltas that changed the working copy
C3_Witness ==
    /\ Denied
    /\ pc = "done"
    /\ idx > 1
    /\ changed
    /\ NameSet(issue_labels) # NameSet(event.labels)

\* the issue has exactly `name`, the command is [Remove(name)], the
\* membership check returned not-a-member, and the handler has returned
RemoveOnlyLabelByNonMember(name) ==
    /\ event.kind = "IssueComment"
    /\ event.labels = <<name>>
    /\ event.parse = ParseOk(<<[op |-> "Remove", label |-> name]>>)
    /\ membership = "NotMember"
    /\ pc = "done"

\* no post and no set_labels call of this invocation failed
NoCallFailed ==
    /\ \A k \in 1..Len(posts) : posts[k].ok
    /\ \A k \in 1..Len(setCalls) : setCalls[k].ok

\* C4 as stated: {T-compiler}, [Remove(T-compiler)] by a verified non-member
\* ends with a denial comment naming T-compiler, no set_labels call, and Ok.
C4_ScenarioAsStated ==
    (RemoveOnlyLabelByNonMember(L_T_compiler) /\ NoCallFailed) =>
        /\ Len(posts) = 1
        /\ posts[1].text.template \in DenialTemplates
        /\ posts[1].text.label = L_T_compiler
        /\ setCalls = <<>>
        /\ result = "Ok"

\* C4 amended: {T-compiler}, [Remove(T-compiler)] by a verified non-member is
\* authorized ("T-" is an allow-listed prefix): no comment is posted, exactly
\* one set_labels call submits the empty list, and the handler returns Ok
\* when that call succeeds. The outcome the claim describes (one denial
\* comment naming the label, no set_labels call, Ok when the post succeeds)
\* is that of a label outside the allow-list, such as I-nominated.
C4_Scenario ==
    /\ RemoveOnlyLabelByNonMember(L_T_compiler) =>
        /\ posts = <<>>
        /\ Len(setCalls) = 1
        /\ setCalls[1].labels = <<>>
        /\ setCalls[1].ok => (result = "Ok" /\ serverLabels = <<>>)
        /\ ~setCalls[1].ok => result = "ErrSetLabels"
    /\ RemoveOnlyLabelByNonMember(L_I_nominated) =>
        /\ Len(posts) = 1
        /\ posts[1].text = TeamOnlyText(L_I_nominated)
        /\ setCalls = <<>>
        /\ serverLabels = <<L_I_nominated>>
        /\ posts[1].ok => result = "Ok"

\* C4 witness: the T-compiler scenario has run and removed the label
C4_Witness ==
    /\ RemoveOnlyLabelByNonMember(L_T_compiler)
    /\ result = "Ok"
    /\ serverLabels = <<>>

\* C5: Fail-closed membership. A check_filter call whose membership check
\* failed allows the label only if a verified non-member is allowed it; when
\* it denies, a verified non-member is denied the same label and only the
\* wording differs.
C5_FailClosed ==
    (pc \in {"apply", "post_denial"} /\ membership = "CheckFailed") =>
        LET label == deltas[idx].label
            other == check_filter(label, "NotMember")
        IN  /\ msg.ok => (other.ok /\ label \in PrefixedLabels \cup TagLabels)
            /\ ~msg.ok =>
                /\ ~other.ok
                /\ msg.text.label = label
                /\ other.text.label = label
                /\ msg.text.template = "TeamOnlyUnchecked"
                /\ other.text.template = "TeamOnly"

\* C5 witness: a failed membership check has ended in a denial
C5_Witness ==
    /\ pc = "post_denial"
    /\ membership = "CheckFailed"
    /\ deltas[idx].label = L_I_unsound
    /\ ~msg.ok

\* C6: Malformed command. On a parse error the handler makes one post, of
\* the text carrying the parser's message and the comment URL, and only then
\* returns a failure; it makes no membership check and no set_labels call.
C6_MalformedCommand ==
    (event.kind = "IssueComment" /\ event.parse.tag = "LabelErr") =>
        /\ checks = <<>>
        /\ setCalls = <<>>
        /\ serverLabels = event.labels
        /\ Len(posts) <= 1
        /\ \A k \in 1..Len(posts) :
            posts[k].text = ParseFailedText(event.url, event.parse.err)
        /\ (result # "Pending") = (pc = "done")
        /\ pc \in {"bail", "done"} => Len(posts) = 1
        /\ pc = "bail" => posts[1].ok
        /\ pc = "done" => result \in {"ErrParse", "ErrPost"}
        /\ result = "ErrParse" => posts[1].ok
        /\ result = "ErrPost" => ~posts[1].ok

\* C6 witness: the comment is posted and the parse failure returned
C6_Witness ==
    /\ event.parse = ParseErr("err2")
    /\ event.url = "url2"
    /\ pc = "done"
    /\ result = "ErrParse"
    /\ posts = <<[text |-> ParseFailedText("url2", "err2"), ok |-> TRUE]>>

\* C7: Permission denied. When a delta is denied, the deltas before it were
\* allowed, none after it is evaluated, exactly one comment is posted, it is
\* a denial naming the denied delta's label, and the handler returns Ok when
\* the post succeeds.
C7_PermissionDenied ==
    Denied =>
        /\ idx \in 1..Len(deltas)
        /\ Len(checks) = idx
        /\ \A j \in 1..Len(checks) :
            /\ checks[j].label = deltas[j].label
            /\ checks[j].ok = (j < idx)
        /\ pc \in {"post_denial", "done"}
        /\ pc = "post_denial" => posts = <<>>
        /\ pc = "done" =>
            /\ Len(posts) = 1
            /\ posts[1].text.template \in DenialTemplates
            /\ posts[1].text.label = deltas[idx].label
            /\ posts[1].ok => result = "Ok"
            /\ ~posts[1].ok => result = "ErrPost"

\* C7 witness: the second of three deltas was denied and the comment posted
C7_Witness ==
    /\ Denied
    /\ Len(deltas) = 3
    /\ idx = 2
    /\ pc = "done"
    /\ Len(posts) = 1
    /\ posts[1].ok
    /\ result = "Ok"

\* every Add names a label of the starting set, every Remove one outside it
AllDeltasRedundant ==
    /\ event.kind = "IssueComment"
    /\ event.parse.tag = "LabelOk"
    /\ \A j \in 1..Len(deltas) :
        (deltas[j].op = "Add") = has_label(event.labels, deltas[j].label)

\* C8: No spurious mutation. When every Add names a label already in the
\* starting set and every Remove a label absent from it, the handler never
\* reaches set_labels and the working copy stays the starting list.
C8_NoSpuriousMutation ==
    AllDeltasRedundant =>
        /\ setCalls = <<>>
        /\ pc # "set_labels"
        /\ changed = FALSE
        /\ pc \notin {"start", "parse"} => issue_labels = event.labels

\* C8 witness: a redundant Add and a redundant Remove were both resolved
C8_Witness ==
    /\ AllDeltasRedundant
    /\ \E j \in 1..Len(deltas) : deltas[j].op = "Add"
    /\ \E j \in 1..Len(deltas) : deltas[j].op = "Remove"
    /\ Resolved
    /\ result = "Ok"

\* C9: Allow-list coverage. For a verified non-member, check_filter allows
\* exactly the labels that start with C-, A-, E-, NLL-, O-, S-, T- or WG- and
\* the labels I-compilemem, I-compiletime, I-crash, I-hang, I-ICE, I-slow.
C9_AllowListCoverage ==
    (pc \in {"apply", "post_denial"} /\ membership = "NotMember") =>
        /\ msg.ok = (deltas[idx].label \in PrefixedLabels \cup TagLabels)
        /\ msg.ok = (pc = "apply")
        /\ ~msg.ok => msg.text = TeamOnlyText(deltas[idx].label)

\* C9 witness: a verified non-member was allowed an NLL- label
C9_Witness ==
    /\ pc = "apply"
    /\ membership = "NotMember"
    /\ deltas[idx].label = L_NLL_fixed
    /\ msg.ok

\* the event is of another kind, or its comment holds no label command
NotApplicable == event.kind # "IssueComment" \/ event.parse.tag = "None"

\* C10: Not applicable. For an event of another kind, or a comment without a
\* label command, the handler returns Ok and makes no membership check, no
\* post and no set_labels call.
C10_NotApplicable ==
    NotApplicable =>
        /\ checks = <<>>
        /\ posts = <<>>
        /\ setCalls = <<>>
        /\ serverLabels = event.labels
        /\ pc \in {"start", "parse", "done"}
        /\ pc = "done" => result = "Ok"

\* C10 witness: a comment without a label command has been handled
C10_Witness ==
    /\ event.kind = "IssueComment"
    /\ event.parse.tag = "None"
    /\ pc = "done"
    /\ result = "Ok"

\* C11: Feedback only on failure. One invocation never makes both a post
\* and a set_labels call, makes at most one of each, posts only on the
\* parse-error or the permission-denied path, and posts nothing when every
\* delta was authorized, whether or not the labels changed.
C11_FeedbackOnlyOnFailure ==
    /\ ~(posts # <<>> /\ setCalls # <<>>)
    /\ Len(posts) <= 1
    /\ Len(setCalls) <= 1
    /\ posts # <<>> =>
        \/ event.parse.tag = "LabelErr" /\
           posts[1].text.template = "ParseFailed"
        \/ Denied /\ posts[1].text.template \in DenialTemplates
    /\ pc = "set_labels" => posts = <<>>
    /\ Resolved => posts = <<>>

\* C11 witness: a fully authorized command changed the labels without comment
C11_Witness ==
    /\ Resolved
    /\ Len(deltas) = 3
    /\ Len(setCalls) = 1
    /\ setCalls[1].ok
    /\ posts = <<>>
    /\ result = "Ok"

\* C12: Member bypass. A check_filter call whose membership check returned
\* is-member allows the label, whatever its name, so a denial never comes
\* from a check that returned is-member and the loop goes on to the delta.
C12_MemberBypass ==
    /\ (pc \in {"apply", "post_denial"} /\ membership = "Member") =>
        /\ pc = "apply"
        /\ msg = FilterOk
        /\ checks[idx].ok
    /\ Denied => membership # "Member"
    /\ posts # <<>> => membership # "Member"

\* C12 witness: a member's command on a restricted label only was resolved
C12_Witness ==
    /\ Resolved
    /\ Len(deltas) = 3
    /\ \A j \in 1..Len(deltas) : deltas[j].label = L_I_nominated
    /\ membership = "Member"
    /\ posts = <<>>
    /\ Len(setCalls) = 1

\* every delta names a label of the allow-list
AllDeltasAllowListed ==
    /\ event.kind = "IssueComment"
    /\ event.parse.tag = "LabelOk"
    /\ \A j \in 1..Len(deltas) : deltas[j].label \in {L_A_foo, L_E_easy}

\* C13: A failed membership check is no handler failure. The check that
\* failed leaves the handler running, on the apply path for an allow-listed
\* label and on the ordinary denial path otherwise; the handler of a parsed
\* command fails only when a post or set_labels call failed; and a command on
\* allow-listed labels only is resolved without comment, with set_labels
\* called exactly when changed, whatever the membership checks returned.
C13_CheckFailureNotFatal ==
    /\ (pc \in {"apply", "post_denial"} /\ membership = "CheckFailed") =>
        /\ result = "Pending"
        /\ (pc = "apply") = (deltas[idx].label \in {L_A_foo, L_E_easy})
        /\ pc = "post_denial" =>
            msg = FilterErr(TeamOnlyUncheckedText(deltas[idx].label))
    /\ (event.parse.tag = "LabelOk" /\ pc = "done") =>
        /\ result \in {"Ok", "ErrPost", "ErrSetLabels"}
        /\ (result = "Ok") = NoCallFailed
        /\ Denied => Len(posts) = 1
    /\ AllDeltasAllowListed =>
        /\ ~Denied
        /\ posts = <<>>
        /\ pc = "done" =>
            /\ idx > Len(deltas)
            /\ changed = (Len(setCalls) = 1)
            /\ ~changed => setCalls = <<>>

\* C13 witness: the only membership check failed and the label was still set
C13_Witness ==
    /\ AllDeltasAllowListed
    /\ Len(deltas) = 1
    /\ membership = "CheckFailed"
    /\ Resolved
    /\ Len(setCalls) = 1
    /\ setCalls[1].ok
    /\ result = "Ok"

\* C14: Network failures propagate without retry. When a post or a
\* set_labels call fails, the handler has returned the failure (on the
\* denial path too), the failed call is the only post or set_labels call of
\* the invocation, and the tracker's label list is untouched.
C14_NetworkFailuresPropagate ==
    /\ (\E k \in 1..Len(posts) : ~posts[k].ok) =>
        /\ pc = "done"
        /\ result = "ErrPost"
        /\ Len(posts) = 1
        /\ setCalls = <<>>
        /\ serverLabels = event.labels
    /\ (\E k \in 1..Len(setCalls) : ~setCalls[k].ok) =>
        /\ pc = "done"
        /\ result = "ErrSetLabels"
        /\ Len(setCalls) = 1
        /\ posts = <<>>
        /\ serverLabels = event.labels

\* C14 witness: the denial comment could not be posted
C14_Witness ==
    /\ Denied
    /\ pc = "done"
    /\ Len(posts) = 1
    /\ ~posts[1].ok
    /\ result = "ErrPost"

\* the position of the last delta naming `name`, 0 when none does
LastDeltaOn(name) ==
    IF \E j \in 1..Len(deltas) : deltas[j].label = name
    THEN CHOOSE j \in 1..Len(deltas) :
            /\ deltas[j].label = name
            /\ \A k \in (j + 1)..Len(deltas) : deltas[k].label # name
    ELSE 0

\* the scenario of C15
OverrideScenario ==
    /\ event.kind = "IssueComment"
    /\ event.labels = <<L_A_foo>>
    /\ event.parse = ParseOk(<<[op |-> "Add", label |-> L_E_easy],
                              [op |-> "Remove", label |-> L_A_foo],
                              [op |-> "Add", label |-> L_A_foo]>>)
    /\ pc = "done"

\* C15: Later deltas override earlier ones. After a fully authorized
\* command, a name is in the resolved set exactly when the last delta naming
\* it is an Add, or no delta names it and the starting set had it. From
\* {A-foo}, [Add(E-easy), Remove(A-foo), Add(A-foo)] gives {A-foo, E-easy},
\* submitted by exactly one set_labels call, with no comment.
C15_LaterDeltasOverride ==
    /\ Resolved =>
        /\ \A n \in Names \cup NameSet(event.labels) \cup NameSet(issue_labels) :
            (n \in NameSet(issue_labels)) =
                IF LastDeltaOn(n) = 0 THEN n \in NameSet(event.labels)
                ELSE deltas[LastDeltaOn(n)].op = "Add"
        /\ \A k \in 1..Len(setCalls) : setCalls[k].labels = issue_labels
    /\ OverrideScenario =>
        /\ NameSet(issue_labels) = {L_A_foo, L_E_easy}
        /\ posts = <<>>
        /\ Len(setCalls) = 1
        /\ NameSet(setCalls[1].labels) = {L_A_foo, L_E_easy}
        /\ setCalls[1].ok => result = "Ok"

\* C15 witness: the scenario has run and the tracker holds {A-foo, E-easy}
C15_Witness ==
    /\ OverrideScenario
    /\ result = "Ok"
    /\ NameSet(serverLabels) = {L_A_foo, L_E_easy}

\* no name occurs twice in the list
UniqueNames(labels) ==
    \A a, b \in 1..Len(labels) : labels[a] = labels[b] => a = b

\* C16: No duplicate names. With a starting list of unique names, the
\* working list has unique names after every step of the loop, and so has
\* every list passed to set_labels.
C16_NoDuplicateNames ==
    UniqueNames(event.labels) =>
        /\ UniqueNames(issue_labels)
        /\ \A k \in 1..Len(setCalls) : UniqueNames(setCalls[k].labels)
        /\ UniqueNames(serverLabels)

\* C16 witness: the same absent label was added three times and submitted once
C16_Witness ==
    /\ event.labels = <<L_A_foo>>
    /\ Len(deltas) = 3
    /\ \A j \in 1..Len(deltas) : deltas[j] = [op |-> "Add", label |-> L_E_easy]
    /\ Resolved
    /\ Len(setCalls) = 1
    /\ setCalls[1].labels = <<L_A_foo, L_E_easy>>

\* C17: Denial wording follows the membership outcome. A denial names the
\* denied label; it is the plain variant exactly when the membership check
\* returned not-a-member and the could-not-check variant exactly when the
\* membership check failed, and that is the text posted.
C17_DenialWording ==
    /\ (pc = "post_denial" \/ Denied) =>
        /\ membership \in {"NotMember", "CheckFailed"}
        /\ ~msg.ok
        /\ msg.text.label = deltas[idx].label
        /\ (msg.text.template = "TeamOnly") = (membership = "NotMember")
        /\ (msg.text.template = "TeamOnlyUnchecked") =
                (membership = "CheckFailed")
        /\ \A k \in 1..Len(posts) : posts[k].text = msg.text

\* C17 witness: a verified non-member got the plain denial, posted
C17_Witness ==
    /\ pc = "done"
    /\ membership = "NotMember"
    /\ posts = <<[text |-> TeamOnlyText(L_beta_nominated), ok |-> TRUE]>>

\* C18, in every state: the membership checks made are those of the deltas
\* evaluated so far, one per delta in order, allow-listed labels included
C18_ChecksSoFar ==
    /\ \A j \in 1..Len(checks) :
        j <= Len(deltas) /\ checks[j].label = deltas[j].label
    /\ pc = "loop" => memberChecks = idx - 1
    /\ pc \in {"apply", "post_denial"} =>
        /\ memberChecks = idx
        /\ checks[idx].ok = (pc = "apply")
    /\ (pc = "set_labels" \/ setCalls # <<>>) =>
        /\ memberChecks = Len(deltas)
        /\ ~Denied
    /\ Resolved => memberChecks = Len(deltas)
    /\ Denied =>
        /\ memberChecks = idx
        /\ \A j \in 1..Len(checks) : checks[j].ok = (j < idx)

\* C18, in every step: the working list changes only by applying the delta
\* whose own check_filter returned Allow, and no membership check is made
\* once set_labels has been called
C18_CheckBeforeUse ==
    /\ (issue_labels' # issue_labels /\ pc \notin {"start", "done"}) =>
        /\ pc = "apply"
        /\ memberChecks = idx
        /\ checks[idx] = [label |-> deltas[idx].label, ok |-> TRUE]
        /\ idx' = idx + 1
    /\ (setCalls' # setCalls /\ setCalls' # <<>>) =>
        /\ checks' = checks
        /\ Len(checks) = Len(deltas)
    /\ (checks' # checks /\ checks' # <<>>) =>
        /\ setCalls = <<>>
        /\ setCalls' = <<>>
        /\ Len(checks') = Len(checks) + 1

\* C18: Membership is re-checked for every delta and before it is applied.
\* The number of membership checks is the number of deltas evaluated (all of
\* them when none is denied, the position of the first denied one
\* otherwise), every check precedes the set_labels call, and a delta is
\* applied only after its own check_filter returned Allow.
C18_CheckedPerDelta == [](C18_ChecksSoFar) /\ [][C18_CheckBeforeUse]_vars

\* C18 witness: three allow-listed deltas were each checked, then submitted
C18_Witness ==
    /\ AllDeltasAllowListed
    /\ Len(deltas) = 3
    /\ Resolved
    /\ memberChecks = 3
    /\ Len(setCalls) = 1

\* both invocations returned Ok after resolving every delta of their command
BothResolved ==
    /\ peer.pc = "done"
    /\ Resolved
    /\ result = "Ok"
    /\ peer.result = "Ok"
    /\ peer.idx > Len(peer.event.parse.deltas)
    /\ \A j \in 1..Len(peer.checks) : peer.checks[j].ok

\* the successful set_labels submissions of both invocations
Submitted ==
    {setCalls[k].labels : k \in {j \in 1..Len(setCalls) : setCalls[j].ok}}
    \cup {peer.setCalls[k].labels :
            k \in {j \in 1..Len(peer.setCalls) : peer.setCalls[j].ok}}

\* the two commands name no label in common
DisjointCommands ==
    \A j \in 1..Len(deltas), k \in 1..Len(peer.event.parse.deltas) :
        deltas[j].label # peer.event.parse.deltas[k].label

\* the label set after both commands, which for commands on different labels
\* is the same whichever is applied first
BothApplied ==
    LET ds == deltas \o peer.event.parse.deltas
        named == {ds[j].label : j \in 1..Len(ds)}
        added == {ds[j].label : j \in {i \in 1..Len(ds) : ds[i].op = "Add"}}
    IN  (NameSet(event.labels) \ named) \cup added

====
